---- MODULE Spec2Model ----
(***************************************************************************)
(* Model of the AI Hallucination Guard: the /ask pipeline of main.py       *)
(* (ask_question) and the knowledge source adapter of                      *)
(* tools/wikipedia_tool.py (search_wikipedia).                             *)
(*                                                                         *)
(* Three specifications share the module:                                  *)
(*   AdapterSpec     a caller that runs search_wikipedia over and over     *)
(*                   against a reference service that may be unreachable,  *)
(*                   answer with any status and body, or never answer;     *)
(*   Spec            one /ask request running ask_question, with every     *)
(*                   input and every answer of its collaborators;          *)
(*   ConcurrentSpec  NumRequests /ask requests interleaved, step by step,  *)
(*                   over a few answers of the collaborators.              *)
(***************************************************************************)
EXTENDS Integers, Sequences, FiniteSets, TLC

VARIABLES
    \* ---- search_wikipedia, one caller ----
    sw_pc,       \* "idle" | "get" (blocked in requests.get) | "got" | "done"
    sw_params,   \* params["titles"] of the call in progress
    sw_response, \* what requests.get produced: a response or an exception
    sw_last,     \* the last completed lookup: service behaviour and outcome
    sw_prev,     \* the completed lookup before that
    \* ---- ask_question, one copy of the locals per request ----
    pc,
    user_query,
    draft_response,
    extracted_claims,
    verification_results,
    risk_analysis,
    response_data,
    calls,       \* per request: the calls it made, in order, with arguments
    result       \* per request: what ask_question gave its caller

sw_vars == <<sw_pc, sw_params, sw_response, sw_last, sw_prev>>
rq_vars == <<pc, user_query, draft_response, extracted_claims,
             verification_results, risk_analysis, response_data, calls, result>>
vars == <<sw_pc, sw_params, sw_response, sw_last, sw_prev,
          pc, user_query, draft_response, extracted_claims,
          verification_results, risk_analysis, response_data, calls, result>>

(***************************************************************************)
(* Bounds                                                                  *)
(***************************************************************************)
MaxPages == 2
MaxClaims == 2
NumRequests == 2

(***************************************************************************)
(* Python values                                                           *)
(***************************************************************************)
PyNone == [type |-> "NoneType", val |-> "None"]
PyStr(s) == [type |-> "str", val |-> s]
Return(v) == [kind |-> "return", value |-> v]
Raise(e) == [kind |-> "raise", value |-> [type |-> e, val |-> ""]]

EmptyDict == [k \in {} |-> k]
\* dict.get(key, default)
DictGet(d, key, default) == IF key \in DOMAIN d THEN d[key] ELSE default

\* str.strip() on a string held as a sequence of characters
RECURSIVE LStrip(_)
LStrip(s) == IF s # <<>> /\ Head(s) = " " THEN LStrip(Tail(s)) ELSE s
RECURSIVE RStrip(_)
RStrip(s) ==
    IF s # <<>> /\ s[Len(s)] = " " THEN RStrip(SubSeq(s, 1, Len(s) - 1)) ELSE s
Strip(s) == RStrip(LStrip(s))

(***************************************************************************)
(* The reference service, as search_wikipedia sees it                      *)
(***************************************************************************)
Titles == {<<"A">>, <<" ", "A">>, <<"A", " ">>}
Extracts == {"", "t1", "t2"}

\* one entry of data["query"]["pages"]: a page with an extract, or the
\* entry the service gives for a title it does not know
PageData ==
    {[title |-> "A", extract |-> t] : t \in Extracts}
        \cup {[title |-> "A", missing |-> ""]}

RECURSIVE SeqsUpTo(_, _)
SeqsUpTo(S, n) ==
    IF n = 0 THEN {<<>>}
    ELSE LET shorter == SeqsUpTo(S, n - 1)
         IN  shorter \cup {Append(s, e) : s \in {t \in shorter : Len(t) = n - 1}, e \in S}

\* "pages" keeps the order the service wrote the entries in (a dict, in
\* insertion order): a sequence of entries
PagesDicts == SeqsUpTo(PageData, MaxPages)

NotJson == [json |-> FALSE, data |-> EmptyDict]
JsonBodies ==
    {[json |-> TRUE, data |-> [batchcomplete |-> ""]]}
        \cup {[json |-> TRUE, data |-> [batchcomplete |-> "", query |-> [pages |-> p]]] :
                p \in PagesDicts}

StatusCodes == {200, 404, 503}

ServiceResponses ==
    {[kind |-> "unreachable", status_code |-> 0, body |-> NotJson]}
        \cup {[kind |-> "http", status_code |-> 200, body |-> b] :
                b \in JsonBodies \cup {NotJson}}
        \cup {[kind |-> "http", status_code |-> s, body |-> NotJson] :
                s \in StatusCodes \ {200}}

(***************************************************************************)
(* search_wikipedia, from the point requests.get comes back                *)
(***************************************************************************)
\* for page_id, page_data in pages.items(): return page_data.get("extract", None)
\* return None
PagesLoopLast(pages) ==
    IF pages = <<>> THEN Return(PyNone)
    ELSE LET e == DictGet(pages[Len(pages)], "extract", "")
         IN  IF "extract" \in DOMAIN pages[Len(pages)] THEN Return(PyStr(e)) ELSE Return(PyNone)

PagesLoop(pages) ==
    IF pages = <<>> THEN Return(PyNone)
    ELSE LET page_data == Head(pages)
         IN  IF "extract" \in DOMAIN page_data
             THEN Return(PyStr(page_data["extract"]))
             ELSE Return(PyNone)

search_wikipedia(resp) ==
    IF resp.kind = "unreachable" THEN Raise("ConnectionError")
    ELSE IF resp.status_code # 200 THEN Return(PyNone)
    ELSE IF ~resp.body.json THEN Raise("JSONDecodeError")
    ELSE LET data == resp.body.data
             pages == DictGet(DictGet(data, "query", EmptyDict), "pages", <<>>)
         IN  PagesLoop(pages)

NoLookup == [service |-> [kind |-> "none", status_code |-> 0, body |-> NotJson],
             outcome |-> Return(PyNone)]

SwInit ==
    /\ sw_pc = "idle"
    /\ sw_params = [titles |-> <<>>]
    /\ sw_response = NoLookup.service
    /\ sw_last = NoLookup
    /\ sw_prev = NoLookup

\* a caller enters search_wikipedia(title): lines 3-21, up to requests.get
SearchCall(title) ==
    /\ sw_pc \in {"idle", "done"}
    /\ sw_params' = [titles |-> Strip(title)]
    /\ sw_prev' = sw_last
    /\ sw_pc' = "get"
    /\ UNCHANGED <<sw_response, sw_last>>

\* requests.get comes back: the service answered, or the connection failed
RequestsGetReturns(resp) ==
    /\ sw_pc = "get"
    /\ sw_response' = resp
    /\ sw_pc' = "got"
    /\ UNCHANGED <<sw_params, sw_last, sw_prev>>

\* lines 23-34: the rest of the function, up to its return or its exception
SearchFinish ==
    /\ sw_pc = "got"
    /\ sw_last' = [service |-> sw_response, outcome |-> search_wikipedia(sw_response)]
    /\ sw_pc' = "done"
    /\ UNCHANGED <<sw_params, sw_response, sw_prev>>

AdapterNext ==
    \/ \E title \in Titles : SearchCall(title) /\ UNCHANGED rq_vars
    \/ \E resp \in ServiceResponses : RequestsGetReturns(resp) /\ UNCHANGED rq_vars
    \/ SearchFinish /\ UNCHANGED rq_vars


(***************************************************************************)
(* ask_question and its collaborators                                      *)
(***************************************************************************)
Requests == 1 .. NumRequests

Queries == {"q1", "q2"}
Drafts == {"d1", "d2"}
ClaimTexts == {"c1", "c2"}
Corrections == {"k1"}

\* generate_response(query) and regenerate_response(query, verdicts): text, or
\* the error of the generative service
GenerateOutcomes == {Return(PyStr(d)) : d \in Drafts} \cup {Raise("APIError")}
RegenerateOutcomes == {Return(PyStr(k)) : k \in Corrections} \cup {Raise("APIError")}
\* extract_claims(draft): an ordered list of claims
ClaimLists == SeqsUpTo(ClaimTexts, MaxClaims)
\* log_request(record): done, or the error of the store
LogOutcomes == {Return(PyNone), Raise("IOError")}
\* what one lookup of the verifier can end with
LookupOutcomes == {search_wikipedia(resp) : resp \in ServiceResponses}
\* the comparator's judgment of a claim against retrieved text; confidence in percent
ComparatorResults ==
    {[status |-> "Supported", confidence |-> 100],
     [status |-> "Contradicted", confidence |-> 100],
     [status |-> "Unverifiable", confidence |-> 50]}

\* verify(claim): one lookup, then the decision policy
Verdict(claim, lookup, judgment) ==
    IF lookup.value.type = "str"
    THEN [claim |-> claim, status |-> judgment.status,
          confidence |-> judgment.confidence, evidence |-> lookup.value.val]
    ELSE [claim |-> claim, status |-> "Unverifiable", confidence |-> 0, evidence |-> ""]

\* verify_claims(claims): every claim in order; an exception of a lookup is
\* not handled and ends the call
verify_claims(claims, lookups, judgments) ==
    LET failed == {i \in 1 .. Len(claims) : lookups[i].kind = "raise"}
    IN  IF failed # {}
        THEN lookups[CHOOSE i \in failed : \A j \in failed : i <= j]
        ELSE Return([i \in 1 .. Len(claims) |->
                        Verdict(claims[i], lookups[i], judgments[i])])

\* weight of a verdict, in halves: Contradicted 1.0, Unverifiable 0.5, Supported 0.0
Weight(v) ==
    IF v.status = "Contradicted" THEN 2 ELSE IF v.status = "Unverifiable" THEN 1 ELSE 0

RECURSIVE SumWeights(_)
SumWeights(vs) == IF vs = <<>> THEN 0 ELSE Weight(Head(vs)) + SumWeights(Tail(vs))

IsContributing(v) == v.status \in {"Contradicted", "Unverifiable"}

\* calculate_risk(verdicts): risk_score = sum of weights / max(1, count), kept
\* as the fraction <<numerator, denominator>>; thresholds 0.33 and 0.66
calculate_risk(vs) ==
    LET n == IF Len(vs) = 0 THEN 1 ELSE Len(vs)
        s == SumWeights(vs)
    IN  [risk_level |-> IF 50 * s <= 33 * n THEN "Low"
                        ELSE IF 50 * s <= 66 * n THEN "Medium" ELSE "High",
         risk_score |-> <<s, 2 * n>>,
         contributing_claims |-> SelectSeq(vs, IsContributing)]

NoRisk == [risk_level |-> "", risk_score |-> <<0, 1>>, contributing_claims |-> <<>>]
Pending == [kind |-> "pending", value |-> PyNone]
Call(fn, args, ret) == [fn |-> fn, args |-> args, ret |-> ret]

RqInit ==
    /\ pc = [r \in Requests |-> "start"]
    /\ user_query = [r \in Requests |-> ""]
    /\ draft_response = [r \in Requests |-> ""]
    /\ extracted_claims = [r \in Requests |-> <<>>]
    /\ verification_results = [r \in Requests |-> <<>>]
    /\ risk_analysis = [r \in Requests |-> NoRisk]
    /\ response_data = [r \in Requests |-> EmptyDict]
    /\ calls = [r \in Requests |-> <<>>]
    /\ result = [r \in Requests |-> Pending]

\* the order of the statements of ask_question: the step after each step
StepAfterSkipsExtract(step) ==
    CASE step = "start" -> "verify"
      [] step = "extract" -> "verify"
      [] step = "verify" -> "score"
      [] step = "correct" -> "log"
      [] step = "log" -> "returned"

StepAfter(step) ==
    CASE step = "start" -> "extract"
      [] step = "extract" -> "verify"
      [] step = "verify" -> "score"
      [] step = "correct" -> "log"
      [] step = "log" -> "returned"

\* line 46: if risk_analysis["risk_level"] in ["Medium", "High"]
NeedsCorrectionHighOnly(risk) == risk["risk_level"] \in {"High"}

NeedsCorrection(risk) == risk["risk_level"] \in {"Medium", "High"}

\* lines 47-50: the arguments of regenerate_response
CorrectionArgs(r) == <<user_query[r], verification_results[r]>>

\* lines 37-43: response_data, from the locals of the request; risk is the
\* value line 35 has just bound
ResponseDataShared(r, risk) ==
    [user_query |-> user_query[1],
     draft_response |-> draft_response[r],
     extracted_claims |-> extracted_claims[r],
     verification_results |-> verification_results[r],
     risk_analysis |-> risk]

ResponseData(r, risk) ==
    [user_query |-> user_query[r],
     draft_response |-> draft_response[r],
     extracted_claims |-> extracted_claims[r],
     verification_results |-> verification_results[r],
     risk_analysis |-> risk]

\* lines 21-26: the handler is entered with request.query = q and calls
\* generate_response
GenerateDraft(r, q, res) ==
    /\ pc[r] = "start"
    /\ user_query' = [user_query EXCEPT ![r] = q]
    /\ calls' = [calls EXCEPT ![r] =
                    <<Call("ask_question", <<q>>, Pending),
                      Call("generate_response", <<q>>, res)>>]
    /\ IF res.kind = "return"
       THEN /\ draft_response' = [draft_response EXCEPT ![r] = res.value.val]
            /\ pc' = [pc EXCEPT ![r] = StepAfter("start")]
            /\ UNCHANGED result
       ELSE /\ pc' = [pc EXCEPT ![r] = "raised"]
            /\ result' = [result EXCEPT ![r] = res]
            /\ UNCHANGED draft_response
    /\ UNCHANGED <<extracted_claims, verification_results, risk_analysis, response_data>>

\* line 29
ExtractClaims(r, claims) ==
    /\ pc[r] = "extract"
    /\ extracted_claims' = [extracted_claims EXCEPT ![r] = claims]
    /\ calls' = [calls EXCEPT ![r] =
                    Append(@, Call("extract_claims", <<draft_response[r]>>, Return(claims)))]
    /\ pc' = [pc EXCEPT ![r] = StepAfter("extract")]
    /\ UNCHANGED <<user_query, draft_response, verification_results, risk_analysis,
                   response_data, result>>

\* line 32; every lookup ends with one of the outcomes, and the comparator
\* judges each claim
VerifyClaims(r, outcomes) ==
    /\ pc[r] = "verify"
    /\ \E lookups \in [1 .. Len(extracted_claims[r]) -> outcomes],
          judgments \in [1 .. Len(extracted_claims[r]) -> ComparatorResults] :
       LET res == verify_claims(extracted_claims[r], lookups, judgments)
       IN  /\ calls' = [calls EXCEPT ![r] =
                           Append(@, Call("verify_claims", <<extracted_claims[r]>>, res))]
           /\ IF res.kind = "return"
              THEN /\ verification_results' = [verification_results EXCEPT ![r] = res.value]
                   /\ pc' = [pc EXCEPT ![r] = StepAfter("verify")]
                   /\ UNCHANGED result
              ELSE /\ pc' = [pc EXCEPT ![r] = "raised"]
                   /\ result' = [result EXCEPT ![r] = res]
                   /\ UNCHANGED verification_results
    /\ UNCHANGED <<user_query, draft_response, extracted_claims, risk_analysis,
                   response_data>>

\* lines 35-46: the risk, the record, and the test that gates the correction
CalculateRisk(r) ==
    /\ pc[r] = "score"
    /\ LET risk == calculate_risk(verification_results[r])
       IN  /\ risk_analysis' = [risk_analysis EXCEPT ![r] = risk]
           /\ response_data' = [response_data EXCEPT ![r] = ResponseData(r, risk)]
           /\ calls' = [calls EXCEPT ![r] =
                           Append(@, Call("calculate_risk", <<verification_results[r]>>,
                                          Return(risk)))]
           /\ pc' = [pc EXCEPT ![r] = IF NeedsCorrection(risk) THEN "correct" ELSE "log"]
    /\ UNCHANGED <<user_query, draft_response, extracted_claims, verification_results,
                   result>>

\* lines 47-51
Correct(r, res) ==
    /\ pc[r] = "correct"
    /\ calls' = [calls EXCEPT ![r] =
                    Append(@, Call("regenerate_response", CorrectionArgs(r), res))]
    /\ IF res.kind = "return"
       THEN /\ response_data' = [response_data EXCEPT ![r] =
                                    [corrected_response |-> res.value.val] @@ @]
            /\ pc' = [pc EXCEPT ![r] = StepAfter("correct")]
            /\ UNCHANGED result
       ELSE /\ pc' = [pc EXCEPT ![r] = "raised"]
            /\ result' = [result EXCEPT ![r] = res]
            /\ UNCHANGED response_data
    /\ UNCHANGED <<user_query, draft_response, extracted_claims, verification_results,
                   risk_analysis>>

\* lines 54-56: log_request(response_data), then return response_data
LogRequest(r, res) ==
    /\ pc[r] = "log"
    /\ calls' = [calls EXCEPT ![r] =
                    Append(@, Call("log_request", <<response_data[r]>>, res))]
    /\ IF res.kind = "return"
       THEN /\ pc' = [pc EXCEPT ![r] = StepAfter("log")]
            /\ result' = [result EXCEPT ![r] = Return(response_data[r])]
       ELSE /\ pc' = [pc EXCEPT ![r] = "raised"]
            /\ result' = [result EXCEPT ![r] = res]
    /\ UNCHANGED <<user_query, draft_response, extracted_claims, verification_results,
                   risk_analysis, response_data>>

Init == SwInit /\ RqInit

\* one request, every input
Next ==
    \/ \E q \in Queries, res \in GenerateOutcomes :
            GenerateDraft(1, q, res) /\ UNCHANGED sw_vars
    \/ \E claims \in ClaimLists : ExtractClaims(1, claims) /\ UNCHANGED sw_vars
    \/ VerifyClaims(1, LookupOutcomes) /\ UNCHANGED sw_vars
    \/ CalculateRisk(1) /\ UNCHANGED sw_vars
    \/ \E res \in RegenerateOutcomes : Correct(1, res) /\ UNCHANGED sw_vars
    \/ \E res \in LogOutcomes : LogRequest(1, res) /\ UNCHANGED sw_vars

Spec == Init /\ [][Next]_vars

AdapterSpec == Init /\ [][AdapterNext]_vars

\* the caller's own steps are taken when they can be; nothing makes the
\* service answer, and requests.get is given no timeout
AdapterFairSpec ==
    Init /\ [][AdapterNext]_vars /\ WF_vars(SearchFinish /\ UNCHANGED rq_vars)


\* concurrent requests: the same steps, any request next, over few answers
FewGenerateOutcomes == {Return(PyStr("d1")), Raise("APIError")}
FewClaimLists == {<<>>, <<"c1">>}
FewLookupOutcomes == {Return(PyNone), Return(PyStr("t1"))}

ConcurrentNext ==
    \E r \in Requests :
        \/ \E q \in Queries, res \in FewGenerateOutcomes :
                GenerateDraft(r, q, res) /\ UNCHANGED sw_vars
        \/ \E claims \in FewClaimLists : ExtractClaims(r, claims) /\ UNCHANGED sw_vars
        \/ VerifyClaims(r, FewLookupOutcomes) /\ UNCHANGED sw_vars
        \/ CalculateRisk(r) /\ UNCHANGED sw_vars
        \/ \E res \in RegenerateOutcomes : Correct(r, res) /\ UNCHANGED sw_vars
        \/ \E res \in LogOutcomes : LogRequest(r, res) /\ UNCHANGED sw_vars

ConcurrentSpec == Init /\ [][ConcurrentNext]_vars


(***************************************************************************)
(* Reading the record of calls and the service's answers                   *)
(***************************************************************************)
CallsOf(r, fn) == SelectSeq(calls[r], LAMBDA c : c.fn = fn)
CallNames(r) == [i \in 1 .. Len(calls[r]) |-> calls[r][i].fn]
IsPrefix(s, t) == Len(s) <= Len(t) /\ SubSeq(t, 1, Len(s)) = s
Scored(r) == CallsOf(r, "calculate_risk") # <<>>
OwnRisk(r) == CallsOf(r, "calculate_risk")[1].ret.value
Elevated(r) == Scored(r) /\ OwnRisk(r).risk_level \in {"Medium", "High"}

\* the steps of one request, with or without the correction
StepOrder(withCorrection) ==
    <<"ask_question", "generate_response", "extract_claims", "verify_claims",
      "calculate_risk">>
        \o (IF withCorrection THEN <<"regenerate_response">> ELSE <<>>)
        \o <<"log_request">>

Lookups == {sw_last, sw_prev}
Completed(l) == l.service.kind # "none" /\ (l = sw_prev \/ sw_pc = "done")
Non200(svc) == svc.kind = "http" /\ svc.status_code # 200
Ok200Json(svc) == svc.kind = "http" /\ svc.status_code = 200 /\ svc.body.json
ServicePages(svc) ==
    IF "query" \in DOMAIN svc.body.data THEN svc.body.data.query.pages ELSE <<>>
HasText(page) == "extract" \in DOMAIN page /\ page.extract # ""
\* the service answered 200 and holds no entry with text for the topic
NoContent(svc) ==
    /\ Ok200Json(svc)
    /\ \A i \in 1 .. Len(ServicePages(svc)) : ~HasText(ServicePages(svc)[i])

(***************************************************************************)
(* Claims                                                                  *)
(***************************************************************************)

\* C1: a request whose risk level is Low never calls regenerate_response; a
\* request whose risk level is Medium or High always calls it, exactly once,
\* with the query the request came with and the verdict list verify_claims
\* returned.
C1_CorrectionGatedByRisk ==
    \A r \in Requests :
        LET regen == CallsOf(r, "regenerate_response")
        IN  /\ Len(regen) <= 1
            /\ regen # <<>> => Elevated(r)
            /\ (Elevated(r) /\ pc[r] # "correct") =>
                    /\ Len(regen) = 1
                    /\ regen[1].args =
                        <<calls[r][1].args[1], CallsOf(r, "verify_claims")[1].ret.value>>

C1_Witness ==
    \E r \in Requests :
        /\ pc[r] = "returned"
        /\ Elevated(r)
        /\ Len(verification_results[r]) >= 2
        /\ verification_results[r][1] # verification_results[r][2]
        /\ Len(risk_analysis[r].contributing_claims) < Len(verification_results[r])
        /\ CallsOf(r, "regenerate_response") # <<>>

\* C2: the calls of a request are made in the order generate_response,
\* extract_claims, verify_claims, calculate_risk, regenerate_response (only
\* when the risk is Medium or High), log_request; a call is made only after
\* the one before it has returned; calculate_risk gets the verdict list of
\* verify_claims, one verdict per extracted claim; and a request that returns
\* its record has made every one of these calls, log_request last.
C2_StepsInOrder ==
    \A r \in Requests :
        /\ \E w \in BOOLEAN : IsPrefix(CallNames(r), StepOrder(w))
        /\ Scored(r) => IsPrefix(CallNames(r), StepOrder(Elevated(r)))
        /\ \A i \in 2 .. Len(calls[r]) - 1 : calls[r][i].ret.kind = "return"
        /\ Scored(r) =>
                /\ CallsOf(r, "calculate_risk")[1].args
                        = <<CallsOf(r, "verify_claims")[1].ret.value>>
                /\ Len(CallsOf(r, "calculate_risk")[1].args[1])
                        = Len(CallsOf(r, "extract_claims")[1].ret.value)
        /\ pc[r] = "returned" =>
                /\ CallNames(r) = StepOrder(Elevated(r))
                /\ result[r].kind = "return"

C2_Witness ==
    \E r \in Requests :
        /\ pc[r] = "returned"
        /\ Len(calls[r]) = 7
        /\ Len(extracted_claims[r]) >= 2

\* C3: a lookup the service answers with a status other than 200 ends with
\* an outcome that differs from the outcome of a lookup the service answers
\* with 200 and no content.
C3_FailureDistinctFromAbsent ==
    \A a \in Lookups, b \in Lookups :
        (Completed(a) /\ Completed(b) /\ Non200(a.service) /\ NoContent(b.service))
            => /\ a.outcome.kind = "return"
               /\ a.outcome # b.outcome

\* C4: a lookup the service answers with 200 and no content (no entry, or an
\* entry without text) returns a value that is no text and differs from what
\* a failed lookup gives, and raises nothing.
C4_AbsentIsExplicit ==
    (Completed(sw_last) /\ NoContent(sw_last.service)) =>
        /\ sw_last.outcome.kind = "return"
        /\ sw_last.outcome.value.type # "str"
        /\ (Completed(sw_prev) /\ ~Ok200Json(sw_prev.service))
                => sw_last.outcome # sw_prev.outcome

\* C5: whatever the service does, a lookup ends by returning a value; it
\* never raises, not when the service is unreachable either.
C5_AlwaysTaggedOutcome ==
    \A l \in Lookups : Completed(l) => l.outcome.kind = "return"

\* C6: a request whose log_request call fails still returns its record.
C6_LogFailureDoesNotFailRequest ==
    \A r \in Requests :
        \A i \in 1 .. Len(calls[r]) :
            (calls[r][i].fn = "log_request" /\ calls[r][i].ret.kind = "raise")
                => (pc[r] = "returned" /\ result[r].kind = "return")

\* C7: a request in which generate_response, a lookup of verify_claims or
\* regenerate_response failed does not end with an exception.
C7_TransientFailureContained ==
    \A r \in Requests :
        \A i \in 1 .. Len(calls[r]) :
            (/\ calls[r][i].fn \in {"generate_response", "verify_claims",
                                    "regenerate_response"}
             /\ calls[r][i].ret.kind = "raise")
                => pc[r] # "raised"

\* C8: a lookup that waits in requests.get always comes to an end.
C8_LookupCompletes == (sw_pc = "get") ~> (sw_pc = "done")

\* C9: with requests interleaved, the record of each request holds its own
\* query and the results of its own calls, every call of a request is given
\* the request's own values, the correction runs exactly when the request's
\* own risk is Medium or High, and the record logged and returned is that
\* record.
C9_RequestsIndependent ==
    \A r \in Requests :
        LET c == calls[r]
            rd == response_data[r]
            regen == CallsOf(r, "regenerate_response")
            logs == CallsOf(r, "log_request")
        IN  /\ Len(c) >= 2 => c[2].args = <<c[1].args[1]>>
            /\ Len(c) >= 3 => c[3].args = <<c[2].ret.value.val>>
            /\ Len(c) >= 4 => c[4].args = <<c[3].ret.value>>
            /\ Len(c) >= 5 =>
                    /\ c[5].args = <<c[4].ret.value>>
                    /\ rd.user_query = c[1].args[1]
                    /\ rd.draft_response = c[2].ret.value.val
                    /\ rd.extracted_claims = c[3].ret.value
                    /\ rd.verification_results = c[4].ret.value
                    /\ rd.risk_analysis = c[5].ret.value
                    /\ ("corrected_response" \in DOMAIN rd)
                            <=> (regen # <<>> /\ regen[1].ret.kind = "return")
                    /\ "corrected_response" \in DOMAIN rd
                            => rd.corrected_response = regen[1].ret.value.val
                    /\ regen # <<>> => regen[1].args = <<c[1].args[1], c[4].ret.value>>
                    /\ (regen # <<>> \/ pc[r] = "correct")
                            <=> c[5].ret.value.risk_level \in {"Medium", "High"}
                    /\ logs # <<>> => logs[1].args = <<rd>>
            /\ pc[r] = "returned" => result[r] = Return(rd)

C9_Witness ==
    \E r1 \in Requests, r2 \in Requests :
        /\ pc[r1] = "log" /\ pc[r2] = "log"
        /\ user_query[r1] # user_query[r2]
        /\ "corrected_response" \in DOMAIN response_data[r1]
        /\ "corrected_response" \notin DOMAIN response_data[r2]

\* C10: a lookup the service answers with 200 and a response set of one or
\* more entries returns what the first entry of the set holds, its text or
\* nothing, whatever the later entries are; and two lookups given the same
\* answer end alike.
C10_FirstEntryWins ==
    /\ (Completed(sw_last) /\ Ok200Json(sw_last.service)
            /\ ServicePages(sw_last.service) # <<>>) =>
          LET first == ServicePages(sw_last.service)[1]
          IN  sw_last.outcome =
                IF "extract" \in DOMAIN first THEN Return(PyStr(first.extract))
                ELSE Return(PyNone)
    /\ (Completed(sw_last) /\ Completed(sw_prev) /\ sw_last.service = sw_prev.service)
            => sw_last.outcome = sw_prev.outcome

C10_Witness ==
    /\ Completed(sw_last)
    /\ Ok200Json(sw_last.service)
    /\ Len(ServicePages(sw_last.service)) >= 2
    /\ HasText(ServicePages(sw_last.service)[1])
    /\ HasText(ServicePages(sw_last.service)[2])
    /\ ServicePages(sw_last.service)[1] # ServicePages(sw_last.service)[2]
    /\ sw_last.outcome = Return(PyStr(ServicePages(sw_last.service)[1].extract))

====
